---- MODULE Spec2Model ----
(***************************************************************************)
(* Model of the Opus JNI bridge (opus_jni.cpp, the working variant, and    *)
(* opus_jni_stub.cpp, the interface-shape variant).                        *)
(*                                                                         *)
(* The bridge keeps no state of its own.  What the model keeps is the      *)
(* state of its two collaborators, as the bridge's calls change it:        *)
(*   - the codec library's heap of encoder/decoder resources,              *)
(*   - the managed runtime's table of outstanding array leases             *)
(*     (Get<T>ArrayElements / Release<T>ArrayElements),                    *)
(* together with a record of the last bridge call (its arguments, what it  *)
(* returned, the codec primitives it invoked) and the caller's own set of  *)
(* handles.                                                                *)
(***************************************************************************)
EXTENDS Integers, Sequences, FiniteSets, TLC

\* ------------------------------------------------------------------ bounds

\* Resource addresses the codec's allocator can hand out: 1..MaxAddr.
MaxAddr == 2
\* Longest managed array the caller passes.
MaxLen == 2

\* ------------------------------------------------------- values and inputs

\* The null reference: a value distinct from every array (arrays hold only
\* Orig and Written).
Null == <<"null">>
Addrs == 1..MaxAddr
\* jlong handles the caller may present: the sentinel 0 and every address.
Handles == 0..MaxAddr

\* An array element is either what the caller put there ("orig") or
\* something the codec wrote ("codec"); the codec's algorithm is out of scope.
Orig == "orig"
Written == "codec"
FreshArray(n) == [i \in 1..n |-> Orig]
\* jshortArray / jbyteArray arguments: null or an array of length 0..MaxLen.
ArrayArgs == {Null} \cup {FreshArray(n) : n \in 0..MaxLen}
\* jint frameSize / bytesLength arguments.
SizeArgs == -1..(MaxLen + 1)

\* createEncoder / createDecoder arguments: one accepted and one rejected
\* value of each.
SampleRates == {16000, 44100}
ChannelConfigs == {0, 1, 2}
Complexities == {5, 11}
Bitrates == {0, 16000}

OPUS_OK == 0

\* ------------------------------------------------------------------- state

VARIABLES
    heap,      \* codec heap: address -> resource ([kind, channels]) or Free
    leases,    \* managed runtime: number of array leases outstanding
    held,      \* caller: address -> kind of the handle it holds, or "none"
    honest,    \* caller: TRUE while every call so far honoured the handle contract
    released,  \* addresses released by a destroy and not handed out again since
    alive,     \* FALSE once undefined behaviour has aborted the process
    last,      \* the last bridge call: arguments, result, codec trace
    \* two threads, one step at a time (SpecConc):
    tpc,       \* thread -> where it is in its handler, or "idle"
    targ,      \* thread -> the arguments of its call
    thandle,   \* thread -> the handle it owns ([ptr, kind])
    tarr,      \* thread -> its two managed arrays ([samples, bytes])
    tnative,   \* thread -> the handler's locals pSamples, pBytes
    tret,      \* slot -> the handler's local nRet
    actor      \* the thread that took the last step

vars == <<heap, leases, held, honest, released, alive, last,
          tpc, targ, thandle, tarr, tnative, tret, actor>>
concVars == <<tpc, targ, thandle, tarr, tnative, tret, actor>>

Free == [kind |-> "free", channels |-> 0]
Resource(kind, channels) == [kind |-> kind, channels |-> channels]
FreeAddrs(h) == {a \in Addrs : h[a].kind = "free"}
\* st designates a live resource of the given kind in heap h.
Live(h, st, kind) == st \in Addrs /\ h[st].kind = kind

\* ------------------------------------------------------------ codec library
\* The codec is an external collaborator; its primitives are modelled by the
\* outcomes their documented contract allows at each call site of the bridge.

ValidFs == {8000, 12000, 16000, 24000, 48000}
\* negative codes opus_encode / opus_decode report besides OPUS_BAD_ARG
EncodeErrors == {-2, -3}
DecodeErrors == {-2, -4}

\* One codec primitive invocation, as the bridge made it.
\*   st: the resource pointer passed (or returned, for a create)
\*   ret: what the primitive returned (for a create, the error it reported)
\*   frame_size: the frame_size argument of opus_encode / opus_decode
\*   nbytes: the max_data_bytes argument of opus_encode, the len of opus_decode
Invocation(prim, st, ret, frame_size, nbytes) ==
    [prim |-> prim, st |-> st, ret |-> ret,
     frame_size |-> frame_size, nbytes |-> nbytes]

\* opus_encoder_create / opus_decoder_create: NULL with a negative error for
\* arguments the codec rejects; otherwise a fresh address, or NULL when the
\* allocation fails.
OpusCreateOutcomes(h, Fs, channels) ==
    IF Fs \notin ValidFs \/ channels \notin {1, 2}
    THEN {[ptr |-> 0, error |-> -1]}
    ELSE {[ptr |-> a, error |-> OPUS_OK] : a \in FreeAddrs(h)}
         \cup {[ptr |-> 0, error |-> -7]}

\* opus_encoder_ctl(OPUS_SET_BITRATE(x)) and (OPUS_SET_COMPLEXITY(x)).
\* (-1000 is OPUS_AUTO and -1 is OPUS_BITRATE_MAX, both accepted)
OpusSetBitrate(x) == IF x <= 0 /\ x \notin {-1000, -1} THEN -1 ELSE OPUS_OK
OpusSetComplexity(x) == IF x < 0 \/ x > 10 THEN -1 ELSE OPUS_OK

\* The first n elements of array a overwritten by the codec (clipped to a).
Overwrite(a, n) == [i \in 1..Len(a) |-> IF i <= n THEN Written ELSE a[i]]

Outcome(ret, pcm, data, crash) ==
    [ret |-> ret, pcm |-> pcm, data |-> data, crash |-> crash]
Crash(pcm, data) == Outcome(0, pcm, data, TRUE)

\* opus_encode(st, pcm, frame_size, data, max_data_bytes) with a live encoder:
\* reads frame_size * channels samples of pcm, writes at most max_data_bytes
\* bytes of data and returns their number, or a negative code.  Reading past
\* the end of pcm is undefined: the call proceeds on whatever lies there, or
\* the process aborts.
OpusEncodeLive(channels, pcm, frame_size, data, max_data_bytes) ==
    IF frame_size <= 0
    THEN {Outcome(-1, pcm, data, FALSE)}
    ELSE {Outcome(-1, pcm, data, FALSE)}
         \cup {Outcome(e, pcm, data, FALSE) : e \in EncodeErrors}
         \cup {Outcome(-3, pcm, Overwrite(data, 1), FALSE)}
         \cup {Outcome(n, pcm, Overwrite(data, n), FALSE) : n \in 1..max_data_bytes}
         \cup (IF frame_size * channels > Len(pcm) THEN {Crash(pcm, data)} ELSE {})

\* opus_decode(st, data, len, pcm, frame_size, 0) with a live decoder: reads
\* len bytes of data, writes n * channels samples of pcm for some
\* n <= frame_size and returns n, or a negative code.  Reading past the end
\* of data or writing past the end of pcm is undefined.
OpusDecodeLive(channels, data, len, pcm, frame_size) ==
    IF frame_size <= 0
    THEN {Outcome(-1, pcm, data, FALSE)}
    ELSE {Outcome(-1, pcm, data, FALSE)}
         \cup {Outcome(e, pcm, data, FALSE) : e \in DecodeErrors}
         \cup {Outcome(n, Overwrite(pcm, n * channels), data, FALSE) : n \in 1..frame_size}
         \cup (IF len > Len(data) \/ frame_size * channels > Len(pcm)
               THEN {Crash(pcm, data)} ELSE {})

\* Either primitive handed a NULL buffer: undefined.  The process aborts, or
\* the codec returns a negative code before it touches the buffer.
OpusNullBuffer(pcm, data, errors) ==
    {Crash(pcm, data)}
    \cup {Outcome(e, pcm, data, FALSE) : e \in {-1} \cup errors}

\* The same primitives on a pointer that designates no live resource of the
\* right kind (released, never allocated, or of the other kind): undefined.
\* The process aborts, or the codec runs on whatever the memory holds.
OpusEncodeOutcomes(h, st, pcm, frame_size, data, max_data_bytes) ==
    IF pcm = Null \/ data = Null
    THEN OpusNullBuffer(pcm, data, EncodeErrors)
    ELSE IF Live(h, st, "enc")
    THEN OpusEncodeLive(h[st].channels, pcm, frame_size, data, max_data_bytes)
    ELSE {Crash(pcm, data)}
         \cup UNION {OpusEncodeLive(c, pcm, frame_size, data, max_data_bytes) : c \in {1, 2}}

OpusDecodeOutcomes(h, st, data, len, pcm, frame_size) ==
    IF pcm = Null \/ data = Null
    THEN OpusNullBuffer(pcm, data, DecodeErrors)
    ELSE IF Live(h, st, "dec")
    THEN OpusDecodeLive(h[st].channels, data, len, pcm, frame_size)
    ELSE {Crash(pcm, data)}
         \cup UNION {OpusDecodeLive(c, data, len, pcm, frame_size) : c \in {1, 2}}

\* opus_encoder_destroy / opus_decoder_destroy (both are free(st)): the heap
\* after the call, or "crash".  Releasing an address that holds no resource
\* is undefined: the process aborts, or the heap is left as it was.
OpusDestroyOutcomes(h, st) ==
    IF st = 0
    THEN {[heap |-> h, crash |-> FALSE]}
    ELSE IF h[st].kind # "free"
    THEN {[heap |-> [h EXCEPT ![st] = Free], crash |-> FALSE]}
    ELSE {[heap |-> h, crash |-> TRUE], [heap |-> h, crash |-> FALSE]}

\* ---------------------------------------------------- managed array leases

\* Get<T>ArrayElements(array, 0): the pointers the call can return, the
\* native view of the array's elements, or NULL when the virtual machine
\* cannot grant the lease (native memory exhausted).
GetArrayElements(array) == {array, Null}

\* Release<T>ArrayElements(array, elems, 0) dereferences elems to copy the
\* elements back: with the NULL of a refused lease the process aborts.
ReleaseAborts(elems) == elems = Null

\* Release<T>ArrayElements(array, elems, 0) on a granted lease: copy back and
\* end the lease; the array's contents afterwards.
ReleaseArrayElements(array, elems) == elems

\* The release statements of one exit path, executed in order on the arrays
\* and the pointers held for them (records indexed by "samples", "bytes"):
\*   rel: the releases called, up to and including one that aborts
\*   ended: the number of leases ended; returned: FALSE when a release aborted
\*   samples/bytes: the arrays' contents afterwards
ReleaseAll(order, arrays, elems) ==
    LET bad == {i \in 1..Len(order) : ReleaseAborts(elems[order[i]])}
        stop == IF bad = {} THEN Len(order) + 1
                ELSE CHOOSE i \in bad : \A j \in bad : i <= j
        after(b) == IF \E i \in 1..Len(order) : order[i] = b /\ i < stop
                    THEN ReleaseArrayElements(arrays[b], elems[b])
                    ELSE arrays[b]
    IN  [rel |-> SubSeq(order, 1, IF bad = {} THEN Len(order) ELSE stop),
         ended |-> stop - 1,
         returned |-> bad = {},
         samples |-> after("samples"),
         bytes |-> after("bytes")]

\* ------------------------------------------------- the bridge, working variant
\* Each handler is an operator from the codec heap and the arguments to the
\* set of results the call can have (one per outcome of the lease requests
\* and of the codec).
\*   ret: the value returned; returned: FALSE when the process aborted inside
\*   calls: the codec primitives invoked, in order
\*   samples/bytes: the contents of the two managed arrays after the call
\*   acq: the arrays whose lease was granted; rel: the releases called, in
\*   order; ended: the number of leases ended

Result(ret, returned, calls, samples, bytes, acq, rel, ended) ==
    [ret |-> ret, returned |-> returned, calls |-> calls,
     samples |-> samples, bytes |-> bytes, acq |-> acq, rel |-> rel,
     ended |-> ended]

Arrays(samples, bytes) == [samples |-> samples, bytes |-> bytes]
BothLeases == {"samples", "bytes"}

\* The arrays whose lease was granted, given the pointers returned.
Granted(elems) == {b \in BothLeases : elems[b] # Null}

\* An exit path that runs its release statements and then returns ret.
Exit(ret, calls, order, arrays, elems, acq) ==
    LET r == ReleaseAll(order, arrays, elems)
    IN  Result(IF r.returned THEN ret ELSE 0, r.returned, calls,
               r.samples, r.bytes, acq, r.rel, r.ended)

\* opus_jni.cpp:57   if (!pEnc || !samples || !bytes)
EncodeNullReject(pOpusEnc, samples, bytes) ==
    pOpusEnc = 0 \/ samples = Null \/ bytes = Null

\* opus_jni.cpp:67   if (nSampleSize < frameSize || nByteSize <= 0)
EncodeSizeReject(nSampleSize, frameSize, nByteSize) ==
    nSampleSize < frameSize \/ nByteSize <= 0

\* opus_jni.cpp:70-71   the releases on the size-rejection path
EncodeRejectReleases == <<"samples", "bytes">>

\* opus_jni.cpp:81-82   the releases after the codec call
EncodeFinalReleases == <<"samples", "bytes">>

\* opus_jni.cpp:83   return nRet;
EncodeReturn(nRet) == nRet

\* opus_jni.cpp:63-83   encode once the two pointers are in hand; neither is
\* tested before it is used.
EncodeLeased(h, pOpusEnc, samples, frameSize, bytes, pSamples, pBytes) ==
    LET nSampleSize == Len(samples)
        nByteSize == Len(bytes)
        arrays == Arrays(samples, bytes)
        acq == Granted(Arrays(pSamples, pBytes))
    IN  IF EncodeSizeReject(nSampleSize, frameSize, nByteSize)
        THEN {Exit(-1, <<>>, EncodeRejectReleases, arrays,
                   Arrays(pSamples, pBytes), acq)}
        ELSE {LET inv == Invocation("opus_encode", pOpusEnc, o.ret,
                                    frameSize, nByteSize)
              IN  IF o.crash
                  THEN Result(0, FALSE, <<inv>>, samples, bytes, acq, <<>>, 0)
                  ELSE Exit(EncodeReturn(o.ret), <<inv>>, EncodeFinalReleases,
                            arrays, Arrays(o.pcm, o.data), acq)
              : o \in OpusEncodeOutcomes(h, pOpusEnc, pSamples, frameSize,
                                         pBytes, nByteSize)}

Encode(h, pOpusEnc, samples, frameSize, bytes) ==
    IF EncodeNullReject(pOpusEnc, samples, bytes)
    THEN {Result(-1, TRUE, <<>>, samples, bytes, {}, <<>>, 0)}
    ELSE UNION {EncodeLeased(h, pOpusEnc, samples, frameSize, bytes,
                             pSamples, pBytes)
                : pSamples \in GetArrayElements(samples),
                  pBytes \in GetArrayElements(bytes)}

\* opus_jni.cpp:91   if (!pDec || !samples || !bytes)
DecodeNullReject(pOpusDec, bytes, samples) ==
    pOpusDec = 0 \/ samples = Null \/ bytes = Null

\* opus_jni.cpp:100   if (bytesLength <= 0 || nShortSize < frameSize)
DecodeSizeReject(bytesLength, nShortSize, frameSize) ==
    bytesLength <= 0 \/ nShortSize < frameSize

\* opus_jni.cpp:103-104
DecodeRejectReleases == <<"samples", "bytes">>

\* opus_jni.cpp:114-115
DecodeFinalReleases == <<"samples", "bytes">>

\* opus_jni.cpp:116   return nRet;
DecodeReturn(nRet) == nRet

\* opus_jni.cpp:98-116   decode once the two pointers are in hand; neither is
\* tested before it is used.
DecodeLeased(h, pOpusDec, bytes, bytesLength, samples, frameSize, pSamples, pBytes) ==
    LET nShortSize == Len(samples)
        arrays == Arrays(samples, bytes)
        acq == Granted(Arrays(pSamples, pBytes))
    IN  IF DecodeSizeReject(bytesLength, nShortSize, frameSize)
        THEN {Exit(-1, <<>>, DecodeRejectReleases, arrays,
                   Arrays(pSamples, pBytes), acq)}
        ELSE {LET inv == Invocation("opus_decode", pOpusDec, o.ret,
                                    frameSize, bytesLength)
              IN  IF o.crash
                  THEN Result(0, FALSE, <<inv>>, samples, bytes, acq, <<>>, 0)
                  ELSE Exit(DecodeReturn(o.ret), <<inv>>, DecodeFinalReleases,
                            arrays, Arrays(o.pcm, o.data), acq)
              : o \in OpusDecodeOutcomes(h, pOpusDec, pBytes, bytesLength,
                                         pSamples, frameSize)}

Decode(h, pOpusDec, bytes, bytesLength, samples, frameSize) ==
    IF DecodeNullReject(pOpusDec, bytes, samples)
    THEN {Result(-1, TRUE, <<>>, samples, bytes, {}, <<>>, 0)}
    ELSE UNION {DecodeLeased(h, pOpusDec, bytes, bytesLength, samples,
                             frameSize, pSamples, pBytes)
                : pSamples \in GetArrayElements(samples),
                  pBytes \in GetArrayElements(bytes)}

\* A codec call that touches no array.
Plain(prim, st, ret) == Invocation(prim, st, ret, 0, 0)

\* opus_jni.cpp:21-29   the fixed configuration policy; every return value of
\* opus_encoder_ctl is discarded.
EncoderCtls(pOpusEnc, complexity, bitrate) ==
    << Plain("OPUS_SET_VBR", pOpusEnc, OPUS_OK),
       Plain("OPUS_SET_VBR_CONSTRAINT", pOpusEnc, OPUS_OK),
       Plain("OPUS_SET_BITRATE", pOpusEnc, OpusSetBitrate(bitrate)),
       Plain("OPUS_SET_COMPLEXITY", pOpusEnc, OpusSetComplexity(complexity)),
       Plain("OPUS_SET_SIGNAL", pOpusEnc, OPUS_OK),
       Plain("OPUS_SET_LSB_DEPTH", pOpusEnc, OPUS_OK),
       Plain("OPUS_SET_DTX", pOpusEnc, OPUS_OK),
       Plain("OPUS_SET_INBAND_FEC", pOpusEnc, OPUS_OK),
       Plain("OPUS_SET_PACKET_LOSS_PERC", pOpusEnc, OPUS_OK) >>

\* Mutant: the create handlers return the error code (OPUS_OK on success)
\* instead of the pointer.
CreateReturnsError(ptr) == OPUS_OK

\* opus_jni.cpp:36 / :49   return (jlong) pOpusEnc;
CreateReturn(ptr) == ptr

\* Results of a create: [ret, heap, calls].
CreateEncoder(h, sampleRateInHz, channelConfig, complexity, bitrate) ==
    {[ret |-> CreateReturn(o.ptr),
      heap |-> IF o.ptr # 0
               THEN [h EXCEPT ![o.ptr] = Resource("enc", channelConfig)]
               ELSE h,
      calls |-> <<Plain("opus_encoder_create", o.ptr, o.error)>>
                \o (IF o.ptr # 0 /\ o.error = OPUS_OK
                    THEN EncoderCtls(o.ptr, complexity, bitrate)
                    ELSE <<>>)]
     : o \in OpusCreateOutcomes(h, sampleRateInHz, channelConfig)}

CreateDecoder(h, sampleRateInHz, channelConfig) ==
    {[ret |-> CreateReturn(o.ptr),
      heap |-> IF o.ptr # 0
               THEN [h EXCEPT ![o.ptr] = Resource("dec", channelConfig)]
               ELSE h,
      calls |-> <<Plain("opus_decoder_create", o.ptr, o.error)>>]
     : o \in OpusCreateOutcomes(h, sampleRateInHz, channelConfig)}

\* Mutants: the null check of the destroy handlers dropped, and inverted.
DestroyUnchecked(p) == TRUE
DestroyInverted(p) == p = 0

\* opus_jni.cpp:123 / :133   if (pEnc)
DestroyInvokes(p) == p # 0

\* Results of a destroy: [heap, returned, calls].
Destroy(h, prim, p) ==
    IF DestroyInvokes(p)
    THEN {[heap |-> o.heap, returned |-> ~o.crash, calls |-> <<Plain(prim, p, 0)>>]
          : o \in OpusDestroyOutcomes(h, p)}
    ELSE {[heap |-> h, returned |-> TRUE, calls |-> <<>>]}

DestroyEncoder(h, pOpusEnc) == Destroy(h, "opus_encoder_destroy", pOpusEnc)
DestroyDecoder(h, pOpusDec) == Destroy(h, "opus_decoder_destroy", pOpusDec)

\* ------------------------------------------- the bridge, interface-shape variant

StubCreateEncoder(sampleRateInHz, channelConfig, complexity, bitrate) == 0
StubCreateDecoder(sampleRateInHz, channelConfig) == 0
\* Mutant: the stub's encode reports success with no bytes written.
StubEncodeZero(pOpusEnc, samples, frameSize, bytes) == 0
StubEncode(pOpusEnc, samples, frameSize, bytes) == -1
StubDecode(pOpusDec, bytes, bytesLength, samples, frameSize) == -1
\* the stub's destroy handlers invoke nothing
StubDestroyInvokes(p) == FALSE

\* ------------------------------------------------ one caller, whole handlers

\* The arguments of a call, in one shape for all six operations.
Call(op, handle, samples, bytes, frameSize, bytesLength, cfg) ==
    [op |-> op, handle |-> handle, samples |-> samples, bytes |-> bytes,
     frameSize |-> frameSize, bytesLength |-> bytesLength, cfg |-> cfg]
NoCfg == <<0, 0, 0, 0>>

\* What the last call was, did and found:
\*   live/channels: whether the handle designated a live resource of the
\*   operation's kind when the call was made, and that resource's channels
\*   stale: whether the handle had been destroyed before the call was made
Last(call, r, stubRet, stubCalls, live, channels, stale) ==
    [call |-> call, ret |-> r.ret, returned |-> r.returned, calls |-> r.calls,
     samples |-> r.samples, bytes |-> r.bytes, acq |-> r.acq, rel |-> r.rel,
     ended |-> r.ended, stubRet |-> stubRet, stubCalls |-> stubCalls,
     live |-> live, channels |-> channels,
     stale |-> stale]

ChannelsOf(h, st, kind) == IF Live(h, st, kind) THEN h[st].channels ELSE 0
\* The caller presents the sentinel or a handle of this kind that it holds.
Honours(p, kind) == p = 0 \/ held[p] = kind

\* No call on record: the caller has taken the last result.
Idle == Last(Call("idle", 0, Null, Null, 0, 0, NoCfg),
             Result(0, TRUE, <<>>, Null, Null, {}, <<>>, 0), 0, 0, FALSE, 0, FALSE)
\* The caller may make a call: the process runs and no call is on record.
Ready == alive /\ last = Idle

\* Addresses allocated, and addresses released, between heap h and heap g.
FreshlyLive(h, g) == {a \in Addrs : h[a].kind = "free" /\ g[a].kind # "free"}
FreshlyFree(h, g) == {a \in Addrs : h[a].kind # "free" /\ g[a].kind = "free"}

InitSeq ==
    /\ held = [a \in Addrs |-> "none"]
    /\ honest = TRUE
    /\ released = {}
    /\ last = Idle

InitShared ==
    /\ heap = [a \in Addrs |-> Free]
    /\ leases = 0
    /\ alive = TRUE

\* ---------------------------------------- two threads, one step at a time
\* Each thread owns one handle and two arrays and runs the handlers statement
\* by statement; the codec heap and the lease table are shared.

Threads == {1, 2}
\* frameSize / bytesLength of the threads' calls: one that fits the arrays
\* and one that does not.
ConcSizes == {1, MaxLen + 1}
NoHandle == [ptr |-> 0, kind |-> "none"]
NoArgs == [op |-> "none", frameSize |-> 0, bytesLength |-> 0]
NoArrays == [samples |-> Null, bytes |-> Null]

\* Mutant: nRet is a static shared by all calls instead of a local.
RetSlotStatic(t) == 1

\* opus_jni.cpp:75 / :108   int nRet: a local of the call, one per thread
RetSlot(t) == t

InitConcIdle ==
    /\ tpc = [t \in Threads |-> "idle"]
    /\ targ = [t \in Threads |-> NoArgs]
    /\ thandle = [t \in Threads |-> NoHandle]
    /\ tarr = [t \in Threads |-> NoArrays]
    /\ tnative = [t \in Threads |-> NoArrays]
    /\ tret = [t \in Threads |-> 0]
    /\ actor = 0

Init == InitShared /\ InitSeq /\ InitConcIdle

createEncoder ==
    /\ Ready
    /\ \E sampleRateInHz \in SampleRates, channelConfig \in ChannelConfigs,
          complexity \in Complexities, bitrate \in Bitrates :
         \E c \in CreateEncoder(heap, sampleRateInHz, channelConfig, complexity, bitrate) :
            /\ heap' = c.heap
            /\ held' = IF c.ret # 0 THEN [held EXCEPT ![c.ret] = "enc"] ELSE held
            /\ released' = released \ FreshlyLive(heap, c.heap)
            /\ last' = Last(Call("createEncoder", 0, Null, Null, 0, 0,
                                 <<sampleRateInHz, channelConfig, complexity, bitrate>>),
                            Result(c.ret, TRUE, c.calls, Null, Null, {}, <<>>, 0),
                            StubCreateEncoder(sampleRateInHz, channelConfig,
                                              complexity, bitrate),
                            0, FALSE, 0, FALSE)
    /\ UNCHANGED <<leases, honest, alive, concVars>>

createDecoder ==
    /\ Ready
    /\ \E sampleRateInHz \in SampleRates, channelConfig \in ChannelConfigs :
         \E c \in CreateDecoder(heap, sampleRateInHz, channelConfig) :
            /\ heap' = c.heap
            /\ held' = IF c.ret # 0 THEN [held EXCEPT ![c.ret] = "dec"] ELSE held
            /\ released' = released \ FreshlyLive(heap, c.heap)
            /\ last' = Last(Call("createDecoder", 0, Null, Null, 0, 0,
                                 <<sampleRateInHz, channelConfig, 0, 0>>),
                            Result(c.ret, TRUE, c.calls, Null, Null, {}, <<>>, 0),
                            StubCreateDecoder(sampleRateInHz, channelConfig),
                            0, FALSE, 0, FALSE)
    /\ UNCHANGED <<leases, honest, alive, concVars>>

encode ==
    /\ Ready
    /\ \E pOpusEnc \in Handles, samples \in ArrayArgs, frameSize \in SizeArgs,
          bytes \in ArrayArgs :
         \E r \in Encode(heap, pOpusEnc, samples, frameSize, bytes) :
            /\ last' = Last(Call("encode", pOpusEnc, samples, bytes, frameSize, 0, NoCfg),
                            r, StubEncode(pOpusEnc, samples, frameSize, bytes), 0,
                            Live(heap, pOpusEnc, "enc"),
                            ChannelsOf(heap, pOpusEnc, "enc"), pOpusEnc \in released)
            /\ leases' = leases + Cardinality(r.acq) - r.ended
            /\ alive' = r.returned
            /\ honest' = (honest /\ Honours(pOpusEnc, "enc"))
    /\ UNCHANGED <<heap, held, released, concVars>>

decode ==
    /\ Ready
    /\ \E pOpusDec \in Handles, bytes \in ArrayArgs, bytesLength \in SizeArgs,
          samples \in ArrayArgs, frameSize \in SizeArgs :
         \E r \in Decode(heap, pOpusDec, bytes, bytesLength, samples, frameSize) :
            /\ last' = Last(Call("decode", pOpusDec, samples, bytes, frameSize,
                                 bytesLength, NoCfg),
                            r, StubDecode(pOpusDec, bytes, bytesLength, samples, frameSize),
                            0, Live(heap, pOpusDec, "dec"),
                            ChannelsOf(heap, pOpusDec, "dec"), pOpusDec \in released)
            /\ leases' = leases + Cardinality(r.acq) - r.ended
            /\ alive' = r.returned
            /\ honest' = (honest /\ Honours(pOpusDec, "dec"))
    /\ UNCHANGED <<heap, held, released, concVars>>

\* The effect of a destroy handler's result d on handle p of the given kind.
DestroyStep(op, kind, p, d) ==
    /\ heap' = d.heap
    /\ alive' = d.returned
    /\ held' = IF p # 0 THEN [held EXCEPT ![p] = "none"] ELSE held
    /\ honest' = (honest /\ Honours(p, kind))
    /\ released' = released \cup FreshlyFree(heap, d.heap)
    /\ last' = Last(Call(op, p, Null, Null, 0, 0, NoCfg),
                    Result(0, d.returned, d.calls, Null, Null, {}, <<>>, 0),
                    0, IF StubDestroyInvokes(p) THEN 1 ELSE 0,
                    Live(heap, p, kind), ChannelsOf(heap, p, kind),
                    p \in released)
    /\ UNCHANGED <<leases, concVars>>

destroyEncoder ==
    /\ Ready
    /\ \E pOpusEnc \in Handles :
         \E d \in DestroyEncoder(heap, pOpusEnc) :
            DestroyStep("destroyEncoder", "enc", pOpusEnc, d)

destroyDecoder ==
    /\ Ready
    /\ \E pOpusDec \in Handles :
         \E d \in DestroyDecoder(heap, pOpusDec) :
            DestroyStep("destroyDecoder", "dec", pOpusDec, d)

\* The call returns to the managed caller, which takes the result; the
\* record of the call is cleared.
Return ==
    /\ alive
    /\ last # Idle
    /\ last' = Idle
    /\ UNCHANGED <<heap, leases, held, honest, released, alive, concVars>>

Next ==
    \/ createEncoder
    \/ createDecoder
    \/ encode
    \/ decode
    \/ destroyEncoder
    \/ destroyDecoder
    \/ Return

Spec == Init /\ [][Next]_vars

\* ------------------------------------------------------- SpecConc, the steps

atomicVars == <<held, honest, released, last>>

\* Thread t steps to pc.
Step(t, pc) ==
    /\ tpc' = [tpc EXCEPT ![t] = pc]
    /\ actor' = t
    /\ UNCHANGED atomicVars

\* createEncoder / createDecoder, opus_jni.cpp:12-50: the codec allocates and
\* the handler configures the resource it was given.
t_create(t) ==
    /\ alive /\ tpc[t] = "idle" /\ thandle[t] = NoHandle
    /\ \E kind \in {"enc", "dec"}, channelConfig \in {1, 2} :
         \E c \in (IF kind = "enc"
                   THEN CreateEncoder(heap, 16000, channelConfig, 5, 16000)
                   ELSE CreateDecoder(heap, 16000, channelConfig)) :
            /\ heap' = c.heap
            /\ thandle' = [thandle EXCEPT ![t] =
                             IF c.ret # 0 THEN [ptr |-> c.ret, kind |-> kind]
                             ELSE NoHandle]
            /\ tret' = [tret EXCEPT ![RetSlot(t)] = c.ret]
            /\ targ' = [targ EXCEPT ![t] = [NoArgs EXCEPT !.op = "create"]]
    /\ Step(t, "return")
    /\ UNCHANGED <<leases, alive, tarr, tnative>>

\* destroyEncoder / destroyDecoder, opus_jni.cpp:119-137, on the own handle.
t_destroy(t) ==
    /\ alive /\ tpc[t] = "idle" /\ thandle[t] # NoHandle
    /\ \E d \in (IF thandle[t].kind = "enc"
                 THEN DestroyEncoder(heap, thandle[t].ptr)
                 ELSE DestroyDecoder(heap, thandle[t].ptr)) :
            /\ heap' = d.heap
            /\ alive' = d.returned
    /\ thandle' = [thandle EXCEPT ![t] = NoHandle]
    /\ tret' = [tret EXCEPT ![RetSlot(t)] = 0]
    /\ targ' = [targ EXCEPT ![t] = [NoArgs EXCEPT !.op = "destroy"]]
    /\ Step(t, "return")
    /\ UNCHANGED <<leases, tarr, tnative>>

\* encode / decode entered with the own handle and fresh arrays of length
\* MaxLen; the null check, opus_jni.cpp:56-60 / :90-94.
t_enter(t) ==
    /\ alive /\ tpc[t] = "idle" /\ thandle[t] # NoHandle
    /\ \E frameSize \in ConcSizes, bytesLength \in ConcSizes :
         LET op == IF thandle[t].kind = "enc" THEN "encode" ELSE "decode"
             arrays == [samples |-> FreshArray(MaxLen), bytes |-> FreshArray(MaxLen)]
             reject == IF op = "encode"
                       THEN EncodeNullReject(thandle[t].ptr, arrays.samples, arrays.bytes)
                       ELSE DecodeNullReject(thandle[t].ptr, arrays.bytes, arrays.samples)
         IN  /\ targ' = [targ EXCEPT ![t] =
                           [op |-> op, frameSize |-> frameSize,
                            bytesLength |-> IF op = "decode" THEN bytesLength ELSE 0]]
             /\ tarr' = [tarr EXCEPT ![t] = arrays]
             /\ tret' = [tret EXCEPT ![RetSlot(t)] = IF reject THEN -1 ELSE 0]
             /\ Step(t, IF reject THEN "return" ELSE "getSamples")
    /\ UNCHANGED <<heap, leases, alive, thandle, tnative>>

\* opus_jni.cpp:62 / :96   pSamples = GetShortArrayElements(samples, 0)
t_getSamples(t) ==
    /\ alive /\ tpc[t] = "getSamples"
    /\ \E pSamples \in GetArrayElements(tarr[t].samples) :
         /\ tnative' = [tnative EXCEPT ![t].samples = pSamples]
         /\ leases' = IF pSamples # Null THEN leases + 1 ELSE leases
    /\ Step(t, "getBytes")
    /\ UNCHANGED <<heap, alive, targ, thandle, tarr, tret>>

\* opus_jni.cpp:64 / :97   pBytes = GetByteArrayElements(bytes, 0)
t_getBytes(t) ==
    /\ alive /\ tpc[t] = "getBytes"
    /\ \E pBytes \in GetArrayElements(tarr[t].bytes) :
         /\ tnative' = [tnative EXCEPT ![t].bytes = pBytes]
         /\ leases' = IF pBytes # Null THEN leases + 1 ELSE leases
    /\ Step(t, "sizeCheck")
    /\ UNCHANGED <<heap, alive, targ, thandle, tarr, tret>>

\* opus_jni.cpp:67 / :100   the size check
t_sizeCheck(t) ==
    /\ alive /\ tpc[t] = "sizeCheck"
    /\ LET reject == IF targ[t].op = "encode"
                     THEN EncodeSizeReject(Len(tarr[t].samples), targ[t].frameSize,
                                           Len(tarr[t].bytes))
                     ELSE DecodeSizeReject(targ[t].bytesLength, Len(tarr[t].samples),
                                           targ[t].frameSize)
       IN  /\ tret' = [tret EXCEPT ![RetSlot(t)] = IF reject THEN -1 ELSE 0]
           /\ Step(t, IF reject THEN "relSamples" ELSE "codec")
    /\ UNCHANGED <<heap, leases, alive, targ, thandle, tarr, tnative>>

\* opus_jni.cpp:75 / :108   nRet = opus_encode(...) / opus_decode(...)
t_codec(t) ==
    /\ alive /\ tpc[t] = "codec"
    /\ \E o \in (IF targ[t].op = "encode"
                 THEN OpusEncodeOutcomes(heap, thandle[t].ptr, tnative[t].samples,
                                         targ[t].frameSize, tnative[t].bytes,
                                         Len(tarr[t].bytes))
                 ELSE OpusDecodeOutcomes(heap, thandle[t].ptr, tnative[t].bytes,
                                         targ[t].bytesLength, tnative[t].samples,
                                         targ[t].frameSize)) :
         /\ alive' = ~o.crash
         /\ tnative' = [tnative EXCEPT ![t] = [samples |-> o.pcm, bytes |-> o.data]]
         /\ tret' = [tret EXCEPT ![RetSlot(t)] = o.ret]
    /\ Step(t, "relSamples")
    /\ UNCHANGED <<heap, leases, targ, thandle, tarr>>

\* opus_jni.cpp:70, :81 / :103, :114   ReleaseShortArrayElements(samples, pSamples, 0)
t_relSamples(t) ==
    /\ alive /\ tpc[t] = "relSamples"
    /\ IF ReleaseAborts(tnative[t].samples)
       THEN /\ alive' = FALSE
            /\ UNCHANGED <<tarr, tnative, leases>>
       ELSE /\ tarr' = [tarr EXCEPT ![t].samples =
                          ReleaseArrayElements(tarr[t].samples, tnative[t].samples)]
            /\ tnative' = [tnative EXCEPT ![t].samples = Null]
            /\ leases' = leases - 1
            /\ UNCHANGED alive
    /\ Step(t, IF ReleaseAborts(tnative[t].samples) THEN "relSamples" ELSE "relBytes")
    /\ UNCHANGED <<heap, targ, thandle, tret>>

\* opus_jni.cpp:71, :82 / :104, :115   ReleaseByteArrayElements(bytes, pBytes, 0)
t_relBytes(t) ==
    /\ alive /\ tpc[t] = "relBytes"
    /\ IF ReleaseAborts(tnative[t].bytes)
       THEN /\ alive' = FALSE
            /\ UNCHANGED <<tarr, tnative, leases>>
       ELSE /\ tarr' = [tarr EXCEPT ![t].bytes =
                          ReleaseArrayElements(tarr[t].bytes, tnative[t].bytes)]
            /\ tnative' = [tnative EXCEPT ![t].bytes = Null]
            /\ leases' = leases - 1
            /\ UNCHANGED alive
    /\ Step(t, IF ReleaseAborts(tnative[t].bytes) THEN "relBytes" ELSE "return")
    /\ UNCHANGED <<heap, targ, thandle, tret>>

\* What the handler's return statement hands to the caller, opus_jni.cpp:36,
\* :49, :83, :116.
Returned(t) ==
    IF targ[t].op = "encode" THEN EncodeReturn(tret[RetSlot(t)])
    ELSE IF targ[t].op = "decode" THEN DecodeReturn(tret[RetSlot(t)])
    ELSE IF targ[t].op = "create" THEN tret[RetSlot(t)]
    ELSE 0

\* The handler returns; its locals are gone and the caller has taken the
\* result and the arrays.
t_return(t) ==
    /\ alive /\ tpc[t] = "return"
    /\ targ' = [targ EXCEPT ![t] = NoArgs]
    /\ tarr' = [tarr EXCEPT ![t] = NoArrays]
    /\ tret' = [tret EXCEPT ![RetSlot(t)] = 0]
    /\ Step(t, "idle")
    /\ UNCHANGED <<heap, leases, alive, thandle, tnative>>

InitConc == InitShared /\ InitSeq /\ InitConcIdle

NextConc ==
    \E t \in Threads :
        \/ t_create(t)
        \/ t_destroy(t)
        \/ t_enter(t)
        \/ t_getSamples(t)
        \/ t_getBytes(t)
        \/ t_sizeCheck(t)
        \/ t_codec(t)
        \/ t_relSamples(t)
        \/ t_relBytes(t)
        \/ t_return(t)

SpecConc == InitConc /\ [][NextConc]_vars

\* ------------------------------------------------------------------ claims

IsCoding == last.call.op \in {"encode", "decode"}
IsCreate == last.call.op \in {"createEncoder", "createDecoder"}
IsDestroy == last.call.op \in {"destroyEncoder", "destroyDecoder"}
Occurrences(x, seq) == Cardinality({i \in 1..Len(seq) : seq[i] = x})

\* The preconditions of encode and decode that the bridge is to check, as
\* the specification lists them; TRUE when call c violates one.
Violates(c) ==
    \/ c.handle = 0
    \/ c.samples = Null
    \/ c.bytes = Null
    \/ (c.op = "encode" /\ (Len(c.samples) < c.frameSize \/ Len(c.bytes) <= 0))
    \/ (c.op = "decode" /\ (c.bytesLength <= 0 \/ Len(c.samples) < c.frameSize))

\* C1 (as claimed): on every exit path of encode and decode, no lease is
\* released that was not acquired, and when the call returns every lease it
\* acquired has been released exactly once and none is outstanding.
C1_LeasesReleased ==
    IsCoding =>
        /\ \A i \in 1..Len(last.rel) : last.rel[i] \in last.acq
        /\ last.returned =>
              /\ leases = 0
              /\ \A b \in BothLeases :
                    Occurrences(b, last.rel) = (IF b \in last.acq THEN 1 ELSE 0)

\* The part of C1 the code keeps: a call that returns has ended every lease
\* it was granted, once, and a call that aborts in a release leaves at most
\* the leases granted to it.
ReturnedLeasesBalanced ==
    IsCoding =>
        /\ leases = Cardinality(last.acq) - last.ended
        /\ last.returned =>
              /\ leases = 0
              /\ \A b \in BothLeases :
                    Occurrences(b, last.rel) = (IF b \in last.acq THEN 1 ELSE 0)

\* C2 (as claimed): an encode or decode call that violates a precondition
\* returns -1, invokes no codec primitive and leaves both buffers as they
\* were.
C2_RejectedUntouched ==
    (IsCoding /\ Violates(last.call)) =>
        /\ last.returned /\ last.ret = -1
        /\ last.calls = <<>>
        /\ last.samples = last.call.samples
        /\ last.bytes = last.call.bytes

\* The part of C2 the code keeps: such a call invokes no codec primitive and
\* leaves both buffers as they were, and returns -1 if it returns at all; it
\* returns whenever the leases it asked for were granted.
RejectedUntouchedIfReturned ==
    (IsCoding /\ Violates(last.call)) =>
        /\ last.calls = <<>>
        /\ last.samples = last.call.samples
        /\ last.bytes = last.call.bytes
        /\ last.returned => last.ret = -1
        /\ last.returned <=> (last.rel = <<>> \/ last.acq = BothLeases)

\* C3 (as claimed): whenever encode or decode invokes the codec on a live
\* resource, every region the codec may read or write lies inside the
\* leased arrays, for the channel count of the resource.
C3_RegionsInsideArrays ==
    \A i \in 1..Len(last.calls) :
        LET c == last.calls[i] IN
        /\ (c.prim = "opus_encode" /\ last.live) =>
              /\ 0 <= c.frame_size * last.channels
              /\ c.frame_size * last.channels <= Len(last.call.samples)
              /\ c.nbytes = Len(last.call.bytes)
        /\ (c.prim = "opus_decode" /\ last.live) =>
              /\ 0 < c.nbytes /\ c.nbytes <= Len(last.call.bytes)
              /\ 0 <= c.frame_size * last.channels
              /\ c.frame_size * last.channels <= Len(last.call.samples)

\* Every codec primitive of the last call reported success.
AllOk == \A i \in 1..Len(last.calls) : last.calls[i].ret = OPUS_OK

\* C4 (as claimed): createEncoder returns a non-zero handle exactly when the
\* encoder was allocated and every configuration step succeeded; createDecoder
\* returns 0 exactly when the codec failed to create the decoder.
C4_SentinelIffFailure ==
    /\ last.call.op = "createEncoder" =>
          (last.ret # 0 <=> (last.calls[1].st # 0 /\ AllOk))
    /\ last.call.op = "createDecoder" =>
          (last.ret = 0 <=> last.calls[1].ret # OPUS_OK)

\* The kind of resource the caller takes address a to hold.
HeldKind(a) == IF held[a] = "none" THEN "free" ELSE held[a]

\* C5: while the caller honours the handle contract, the live resources are
\* exactly the handles returned by a create and not yet destroyed, and every
\* codec primitive handed a resource is handed a live one of its kind (so
\* none is used after its release or released twice).
C5_LiveEqualsHeld ==
    honest =>
        /\ \A a \in Addrs : heap[a].kind = HeldKind(a)
        /\ (IsCoding \/ IsDestroy) => (last.calls # <<>> => last.live)

\* C5 witness: an honest caller has destroyed the encoder it had created and
\* holds no handle.
C5_Witness ==
    /\ honest /\ last.call.op = "destroyEncoder" /\ last.call.handle # 0
    /\ last.live /\ last.calls # <<>>
    /\ \A a \in Addrs : held[a] = "none"

\* C6: a destroy of the sentinel handle 0 invokes no codec primitive in
\* either variant and changes neither the codec heap nor the caller's
\* handles nor the leases, in any state.
C6_DestroyZeroNoOp ==
    [][(last'.call.op \in {"destroyEncoder", "destroyDecoder"}
        /\ last'.call.handle = 0) =>
          /\ last'.calls = <<>> /\ last'.stubCalls = 0 /\ last'.returned
          /\ heap' = heap /\ held' = held /\ leases' = leases /\ alive' = alive]_vars

\* C6 witness: destroyDecoder(0) has run while a resource was live.
C6_Witness ==
    /\ last.call.op = "destroyDecoder" /\ last.call.handle = 0
    /\ \E a \in Addrs : heap[a].kind # "free"

\* C7 (as claimed): an encode or decode call whose preconditions all pass
\* (live handle of its kind included) invokes the codec exactly once and
\* returns the codec's value unchanged; a success result is at most
\* length(outputBuffer) for encode and at most frameSize for decode.
C7_CodecValueReturned ==
    (IsCoding /\ ~Violates(last.call) /\ last.live) =>
        /\ Len(last.calls) = 1
        /\ last.returned
        /\ last.ret = last.calls[1].ret
        /\ (last.call.op = "encode" /\ last.ret >= 0) =>
              last.ret <= Len(last.call.bytes)
        /\ (last.call.op = "decode" /\ last.ret >= 0) =>
              last.ret <= last.call.frameSize

\* The part of C7 the code keeps: the codec is invoked exactly once, and a
\* call that returns hands back the codec's value, within the bounds.
CodecValueIfReturned ==
    (IsCoding /\ ~Violates(last.call) /\ last.live) =>
        /\ Len(last.calls) = 1
        /\ last.returned =>
              /\ last.ret = last.calls[1].ret
              /\ (last.call.op = "encode" /\ last.ret >= 0) =>
                    last.ret <= Len(last.call.bytes)
              /\ (last.call.op = "decode" /\ last.ret >= 0) =>
                    last.ret <= last.call.frameSize

\* C8: the stub returns 0 from every create and -1 from every encode and
\* decode, and its destroy invokes nothing; each of these is what the working
\* variant gives for the same call when its codec fails (create) or the
\* handle is 0 (encode, decode, destroy).
C8_StubConventions ==
    /\ IsCreate =>
          /\ last.stubRet = 0
          /\ last.calls[1].ret # OPUS_OK => last.ret = last.stubRet
    /\ IsCoding =>
          /\ last.stubRet = -1
          /\ last.call.handle = 0 => (last.returned /\ last.ret = last.stubRet)
    /\ IsDestroy =>
          /\ last.stubCalls = 0
          /\ last.call.handle = 0 => Len(last.calls) = last.stubCalls

\* C8 witness: encode(0, ...) with non-null buffers of sufficient size has
\* returned in both variants.
C8_Witness ==
    /\ last.call.op = "encode" /\ last.call.handle = 0
    /\ last.call.samples # Null /\ last.call.bytes # Null
    /\ Len(last.call.samples) >= last.call.frameSize /\ Len(last.call.bytes) > 0
    /\ last.returned

\* C10: the bridge tracks no handles.  A destroy of any non-zero handle
\* invokes the codec's release primitive on it, and an encode or decode with
\* any non-zero handle and buffers that pass the checks invokes the codec on
\* it and returns what the codec returned, whether or not the handle
\* designates a live resource.
C10_StaleHandleForwarded ==
    /\ (IsDestroy /\ last.call.handle # 0) =>
          /\ Len(last.calls) = 1
          /\ last.calls[1].st = last.call.handle
    /\ (IsCoding /\ ~Violates(last.call)) =>
          /\ Len(last.calls) = 1
          /\ last.calls[1].st = last.call.handle
          /\ last.returned => last.ret = last.calls[1].ret

\* C10 witness: a handle already destroyed has been destroyed again, and the
\* release primitive was invoked on it.
C10_Witness ==
    /\ last.call.op = "destroyEncoder" /\ last.stale /\ ~last.live
    /\ Len(last.calls) = 1 /\ last.calls[1].st = last.call.handle

\* What thread t can observe: its position, arguments, handle, arrays and
\* locals, and the resource its handle designates.
View(t) ==
    <<tpc[t], targ[t], thandle[t], tarr[t], tnative[t], tret[RetSlot(t)],
      IF thandle[t] # NoHandle THEN heap[thandle[t].ptr] ELSE Free>>

\* The results the whole handler, run alone, can have for thread t's call.
Alone(t) ==
    IF targ[t].op = "encode"
    THEN Encode(heap, thandle[t].ptr, FreshArray(MaxLen), targ[t].frameSize,
                FreshArray(MaxLen))
    ELSE Decode(heap, thandle[t].ptr, FreshArray(MaxLen), targ[t].bytesLength,
                FreshArray(MaxLen), targ[t].frameSize)

\* Every thread has what its calls run alone give it: the handle it owns is
\* live, and when an encode or decode is about to return, the value returned
\* and the contents of its arrays are a result of the whole handler.
SameAsAlone ==
    \A t \in Threads :
        /\ thandle[t] # NoHandle => Live(heap, thandle[t].ptr, thandle[t].kind)
        /\ (tpc[t] = "return" /\ targ[t].op \in {"encode", "decode"}) =>
              \E r \in Alone(t) :
                 /\ r.returned /\ r.ret = Returned(t)
                 /\ r.samples = tarr[t].samples /\ r.bytes = tarr[t].bytes

\* C9: operations on distinct handles do not interfere under any
\* interleaving: a step of one thread changes nothing another thread can
\* observe, and each thread's results are those of its calls run alone.
C9_NoInterference ==
    /\ []SameAsAlone
    /\ [][\A t \in Threads : actor' # t => View(t)' = View(t)]_vars

\* C9 witness: both threads are inside a call at once, past the codec and
\* before their releases, thread 1 with an encode that wrote bytes and
\* thread 2 with a decode that wrote samples.
C9_Witness ==
    /\ tpc[1] = "relBytes" /\ targ[1].op = "encode" /\ tret[RetSlot(1)] > 0
    /\ tpc[2] = "relSamples" /\ targ[2].op = "decode" /\ tret[RetSlot(2)] > 0
    /\ leases = 3

====
